---- MODULE Spec2Model ----
(***************************************************************************)
(* Model of the fourier backend: the session manager                       *)
(* (fourier/dao/session_maker.py), the generic DAO (fourier/dao/base.py)   *)
(* and the auth feature (fourier/auth/*.py) over a relational store.       *)
(*                                                                         *)
(* Spec      : concurrent register / login requests over one store.        *)
(* SpecDAO   : one scope of the session manager running DAO operations.    *)
(* SpecToken : current-user resolution over tokens and a clock.            *)
(* SpecGuard : the guarded routes, login and logout over users of all      *)
(*             roles.                                                      *)
(***************************************************************************)
EXTENDS Integers, Sequences, FiniteSets, TLC

VARIABLES
    db,          \* committed rows of the users table
    nextId,      \* the table's autoincrement counter
    uniqueEmail, \* whether the table declares a unique constraint on email
    now,         \* the clock, in days
    req,         \* Spec: the in-flight requests, one per slot
    lastReg,     \* Spec: the credentials of the registration committed last
    raced,       \* Spec: a registration committed an email that was free at its pre-check and stored at its commit
    scope,       \* SpecDAO: one scope of the session manager and the handler in it
    cookie,      \* SpecToken: the users_access_token cookie the client presents
    res,         \* SpecToken: what the last current-user resolution gave
    client       \* SpecGuard: the login the presented cookie came from, and whether logout ran since

vars == <<db, nextId, uniqueEmail, now, req, lastReg, raced, scope, cookie, res, client>>

\* ------------------------------------------------------------------ bounds
MaxId == 2
MaxOps == 2
MaxNow == 31

\* ------------------------------------------------------------------ values
Emails == {"a@x.com", "b@x.com"}
\* Passwords are named by a number; PwLen gives the length of the text.
Passwords == {1, 2, 3}
PwLen(p) == CASE p = 1 -> 5 [] p = 2 -> 8 [] OTHER -> 3
MinPwLen == 5
MaxPwLen == 50
DefaultRole == 1
Reqs == {"r1", "r2"}

\* get_password_hash / verify_password (fourier/auth/utils.py, not in the
\* sources): a salted one-way hash; verify succeeds exactly on the hash of
\* the same plain text.
get_password_hash(p) == [hash |-> p]
verify_password(plain_password, hashed_password) ==
    hashed_password = get_password_hash(plain_password)

\* ------------------------------------------------------------------ errors
NoError == "none"
SQLAlchemyErrors == {"OperationalError", "IntegrityError", "MultipleResultsFound"}
UserAlreadyExistsException == "409 User already exists"
IncorrectEmailOrPasswordException == "401 Incorrect email or password"
ValidationError == "422 validation error"

\* ------------------------------------------------------------------ store
Fields == {"id", "email", "password", "role_id"}
EmptyDict == [k \in {} |-> 0]

\* filter_by(**filter_dict): the rows equal to the filter on each of its keys
Matches(row, filter_dict) == \A k \in DOMAIN filter_dict : row[k] = filter_dict[k]

\* ---------------------------------------------------------------- session
\* An AsyncSession: the rows it has written and deleted and not yet
\* committed, and the calls made on it so far.
NewSession == [open |-> TRUE, written |-> {}, deleted |-> {}, calls |-> <<>>]
NoSession == [open |-> FALSE, written |-> {}, deleted |-> {}, calls |-> <<>>]

Call(s, c) == [s EXCEPT !.calls = Append(@, c)]

\* What a statement executed on the session sees: the committed rows, with
\* the session's own uncommitted changes applied.
View(s) ==
    {r \in db : r.id \notin s.deleted /\ r.id \notin {w.id : w \in s.written}}
        \cup s.written

rollback(s) == [Call(s, "rollback") EXCEPT !.written = {}, !.deleted = {}]
close(s) == [Call(s, "close") EXCEPT !.open = FALSE, !.written = {}, !.deleted = {}]
\* session.commit(): the session's changes become the committed rows.
Committed(s) == View(s)
commit(s) == [Call(s, "commit") EXCEPT !.written = {}, !.deleted = {}]

\* ----------------------------------------------------------------- pydantic
\* A pydantic object: its class and the fields that were set on it.
Model(cls, data) == [cls |-> cls, data |-> data]
EmailModel(email) == Model("EmailModel", [k \in {"email"} |-> email])
SUserAddDB(email, password) ==
    Model("SUserAddDB", [k \in {"email", "password"} |->
                            IF k = "email" THEN email ELSE password])
\* BaseModel.construct(**values) on the base class itself, which declares no
\* field: none of the values is a field of the object.
BaseModel_construct(values) == Model("BaseModel", EmptyDict)
\* filters=None: `if filters` is false and the filter is the empty dict
NoFilters == Model("NoneType", EmptyDict)

\* What the library does with model_dump on an object of the bare base class
\* (it has no serializer of its own): it raises, or dumps no field.
DumpOutcomes == {"raises", "empty"}
\* filters.model_dump(exclude_unset=True) / values.dict(exclude_unset=True)
model_dump_raises(m, lib) == m.cls = "BaseModel" /\ lib = "raises"
model_dump(m) == m.data

\* --------------------------------------------------------------------- DAO
\* What a DAO call leaves: the session, the error it raised (NoError: it
\* returned), the rows it returned and the number it returned.
Ret(s, err, rows, n) == [s |-> s, err |-> err, rows |-> rows, n |-> n]
Faults == {"none", "execute", "flush"}

\* result.scalar_one_or_none(): no row, the row, or MultipleResultsFound
ScalarOneOrNone(s, rows) ==
    IF Cardinality(rows) > 1 THEN Ret(s, "MultipleResultsFound", {}, 0)
    ELSE Ret(s, NoError, rows, 0)

find_one_or_none_by_id(s, data_id, fault) ==
    LET s1 == Call(s, "execute") IN
    IF fault = "execute" THEN Ret(s1, "OperationalError", {}, 0)
    ELSE ScalarOneOrNone(s1, {r \in View(s) : r.id = data_id})

\* find_one_or_none with a query that selects no row
find_one_or_none_NoRow(s, filters, fault, lib) ==
    Ret(Call(s, "execute"), NoError, {}, 0)

find_one_or_none(s, filters, fault, lib) ==
    IF model_dump_raises(filters, lib) THEN Ret(s, "PydanticUserError", {}, 0)
    ELSE
    LET filter_dict == model_dump(filters)
        s1 == Call(s, "execute") IN
    IF fault = "execute" THEN Ret(s1, "OperationalError", {}, 0)
    ELSE ScalarOneOrNone(s1, {r \in View(s) : Matches(r, filter_dict)})

\* cls.model(**values_dict): a row of the table; the identifier is assigned
\* by the store at flush, unset columns take their defaults.
NewRow(values_dict, id) ==
    [k \in Fields |->
        IF k \in DOMAIN values_dict THEN values_dict[k]
        ELSE IF k = "id" THEN id
        ELSE IF k = "role_id" THEN DefaultRole
        ELSE IF k = "password" THEN get_password_hash(0)
        ELSE ""]

\* The INSERT of `row` violates the table's unique constraint.
Conflicts(s, row) ==
    uniqueEmail /\ \E r \in View(s) : r.id # row.id /\ r.email = row.email

\* session.flush() of the pending rows `rows`
Flush(s, rows, fault) ==
    LET s1 == Call(s, "flush") IN
    IF fault = "flush" THEN Ret(s1, "OperationalError", {}, 0)
    ELSE IF \E r \in rows : Conflicts(s, r) THEN Ret(s1, "IntegrityError", {}, 0)
    ELSE Ret([s1 EXCEPT !.written = {w \in @ : w.id \notin {r.id : r \in rows}} \cup rows],
             NoError, rows, 0)

\* add that commits what it flushed
add_Commits(s, values, fault) ==
    LET f == Flush(Call(s, "add"), {NewRow(model_dump(values), nextId)}, fault) IN
    IF f.err # NoError THEN Ret(rollback(f.s), f.err, {}, 0)
    ELSE Ret(Call(f.s, "commit"), NoError, f.rows, 0)

\* add that re-raises without a rollback
add_NoRollback(s, values, fault) ==
    Flush(Call(s, "add"), {NewRow(model_dump(values), nextId)}, fault)

add(s, values, fault) ==
    LET values_dict == model_dump(values)
        new_instance == NewRow(values_dict, nextId)
        f == Flush(Call(s, "add"), {new_instance}, fault) IN
    IF f.err # NoError THEN Ret(rollback(f.s), f.err, {}, 0)
    ELSE f

\* A row with the columns of values_dict set to its values
UpdateRow(row, values_dict) ==
    [k \in Fields |-> IF k \in DOMAIN values_dict THEN values_dict[k] ELSE row[k]]

\* The session after its statement has rewritten `olds` as `news` (same ids)
Rewrite(s, news) ==
    [s EXCEPT !.written = {w \in @ : w.id \notin {r.id : r \in news}} \cup news]

\* The session after its statement has deleted `rows`
Remove(s, rows) ==
    [s EXCEPT !.written = {w \in @ : w.id \notin {r.id : r \in rows}},
              !.deleted = @ \cup {r.id : r \in rows}]

find_all(s, filters, fault) ==
    LET filter_dict == model_dump(filters)
        s1 == Call(s, "execute") IN
    IF fault = "execute" THEN Ret(s1, "OperationalError", {}, 0)
    ELSE Ret(s1, NoError, {r \in View(s) : Matches(r, filter_dict)}, 0)

count(s, filters, fault) ==
    LET filter_dict == model_dump(filters)
        s1 == Call(s, "execute") IN
    IF fault = "execute" THEN Ret(s1, "OperationalError", {}, 0)
    ELSE Ret(s1, NoError, {}, Cardinality({r \in View(s) : Matches(r, filter_dict)}))

\* query.offset((page - 1) * page_size).limit(page_size), rows in id order
paginate(s, page, page_size, filters, fault) ==
    LET filter_dict == model_dump(filters)
        s1 == Call(s, "execute")
        rows == {r \in View(s) : Matches(r, filter_dict)}
        Rank(r) == Cardinality({x \in rows : x.id < r.id})
        offset == (page - 1) * page_size IN
    IF fault = "execute" THEN Ret(s1, "OperationalError", {}, 0)
    ELSE Ret(s1, NoError, {r \in rows : Rank(r) >= offset /\ Rank(r) < offset + page_size}, 0)

find_by_ids(s, ids, fault) ==
    LET s1 == Call(s, "execute") IN
    IF fault = "execute" THEN Ret(s1, "OperationalError", {}, 0)
    ELSE Ret(s1, NoError, {r \in View(s) : r.id \in ids}, 0)

\* add_many of a list `instances` of pydantic objects
add_many(s, instances, fault) ==
    LET new_instances == {NewRow(model_dump(instances[i]), nextId + i - 1) :
                              i \in 1..Len(instances)}
        f == Flush(Call(s, "add_all"), new_instances, fault) IN
    IF f.err # NoError THEN Ret(rollback(f.s), f.err, {}, 0)
    ELSE f

\* The UPDATE statement: the matching rows take the values
ExecuteUpdate(s, filter_dict, values_dict, fault) ==
    LET s1 == Call(s, "execute")
        olds == {r \in View(s) : Matches(r, filter_dict)}
        news == {UpdateRow(r, values_dict) : r \in olds}
        s2 == Rewrite(s1, news) IN
    IF fault = "execute" THEN Ret(s1, "OperationalError", {}, 0)
    ELSE IF uniqueEmail /\ \E u, v \in View(s2) : u.id # v.id /\ u.email = v.email
                        /\ (u \in news \/ v \in news)
         THEN Ret(s1, "IntegrityError", {}, 0)
    ELSE Ret(s2, NoError, news, Cardinality(olds))

\* session.flush() with nothing pending
FlushNone(s, fault) ==
    IF fault = "flush" THEN Ret(Call(s, "flush"), "OperationalError", {}, 0)
    ELSE Ret(Call(s, "flush"), NoError, {}, 0)

update(s, filters, values, fault) ==
    LET filter_dict == model_dump(filters)
        values_dict == model_dump(values)
        result == ExecuteUpdate(s, filter_dict, values_dict, fault)
        f == FlushNone(result.s, fault) IN
    IF result.err # NoError THEN Ret(rollback(result.s), result.err, {}, 0)
    ELSE IF f.err # NoError THEN Ret(rollback(f.s), f.err, {}, 0)
    ELSE Ret(f.s, NoError, {}, result.n)

\* delete without the check of the filter
delete_NoCheck(s, filters, fault) ==
    LET filter_dict == model_dump(filters)
        s1 == Call(s, "execute")
        rows == {r \in View(s) : Matches(r, filter_dict)}
        f == FlushNone(Remove(s1, rows), fault) IN
    IF fault = "execute" THEN Ret(rollback(s1), "OperationalError", {}, 0)
    ELSE IF f.err # NoError THEN Ret(rollback(f.s), f.err, {}, 0)
    ELSE Ret(f.s, NoError, {}, Cardinality(rows))

delete(s, filters, fault) ==
    LET filter_dict == model_dump(filters)
        s1 == Call(s, "execute")
        rows == {r \in View(s) : Matches(r, filter_dict)}
        f == FlushNone(Remove(s1, rows), fault) IN
    IF DOMAIN filter_dict = {} THEN Ret(s, "ValueError", {}, 0)
    ELSE IF fault = "execute" THEN Ret(rollback(s1), "OperationalError", {}, 0)
    ELSE IF f.err # NoError THEN Ret(rollback(f.s), f.err, {}, 0)
    ELSE Ret(f.s, NoError, {}, Cardinality(rows))

\* upsert(unique_fields, values); `lib` is what the library does with the
\* filter object (see DumpOutcomes).
upsert(s, unique_fields, values, fault, lib) ==
    LET values_dict == model_dump(values)
        filter_dict == [field \in unique_fields \cap DOMAIN values_dict |-> values_dict[field]]
        existing == find_one_or_none(s, BaseModel_construct(filter_dict), fault, lib)
        updated == {UpdateRow(r, values_dict) : r \in existing.rows}
        fu == Flush(existing.s, updated, fault)
        new_instance == NewRow(values_dict, nextId)
        fn == Flush(Call(existing.s, "add"), {new_instance}, fault) IN
    IF existing.err \in SQLAlchemyErrors THEN Ret(rollback(existing.s), existing.err, {}, 0)
    ELSE IF existing.err # NoError THEN existing
    ELSE IF existing.rows # {}
         THEN IF fu.err # NoError THEN Ret(rollback(fu.s), fu.err, {}, 0) ELSE fu
         ELSE IF fn.err # NoError THEN Ret(rollback(fn.s), fn.err, {}, 0) ELSE fn

\* bulk_update of a list `records` of pydantic objects: one UPDATE for each
\* record that has an id, then one flush
RECURSIVE BulkExecute(_, _, _, _)
BulkExecute(s, records, fault, updated_count) ==
    IF records = <<>> THEN Ret(s, NoError, {}, updated_count)
    ELSE LET record_dict == model_dump(Head(records))
             update_data == [k \in DOMAIN record_dict \ {"id"} |-> record_dict[k]]
             result == ExecuteUpdate(s, [k \in {"id"} |-> record_dict["id"]],
                                     update_data, fault) IN
         IF "id" \notin DOMAIN record_dict
         THEN BulkExecute(s, Tail(records), fault, updated_count)
         ELSE IF result.err # NoError THEN result
         ELSE BulkExecute(result.s, Tail(records), fault, updated_count + result.n)

bulk_update(s, records, fault) ==
    LET b == BulkExecute(s, records, fault, 0)
        f == FlushNone(b.s, fault) IN
    IF b.err # NoError THEN Ret(rollback(b.s), b.err, {}, 0)
    ELSE IF f.err # NoError THEN Ret(rollback(f.s), f.err, {}, 0)
    ELSE Ret(f.s, NoError, {}, b.n)

\* ---------------------------------------------------------- session manager
\* What leaving a scope gives: the session, the error that leaves the scope
\* (NoError: none) and whether the session's changes were committed.
Left(s, err, committed) == [s |-> s, err |-> err, committed |-> committed]

\* transaction that commits whatever the body did
transaction_CommitAlways(s, herr, fault) ==
    IF fault THEN Left(rollback(Call(s, "commit")), "OperationalError", FALSE)
    ELSE Left(commit(s), herr, TRUE)

\* DatabaseSessionManager.transaction, from the yield on: `herr` is the error
\* the body raised (NoError: it completed), `fault` makes the commit fail.
transaction(s, herr, fault) ==
    IF herr = NoError
    THEN IF fault
         THEN Left(rollback(Call(s, "commit")), "OperationalError", FALSE)
         ELSE Left(commit(s), NoError, TRUE)
    ELSE Left(rollback(s), herr, FALSE)

\* DatabaseSessionManager.create_session, from the yield on
create_session(s, herr) == Left(close(s), herr, FALSE)

\* DatabaseSessionManager.get_session, from the yield on
get_session(s, herr) == create_session(s, herr)

\* DatabaseSessionManager.get_transaction_session, from the yield on
get_transaction_session(s, herr, fault) ==
    LET t == transaction(s, herr, fault)
        c == create_session(t.s, t.err) IN
    Left(c.s, c.err, t.committed)

\* DatabaseSessionManager.connection(isolation_level, commit), before the
\* decorated method: SET TRANSACTION ISOLATION LEVEL when a level is given
connection_enter(s, isolation_level, fault) ==
    IF isolation_level = "None" THEN Ret(s, NoError, {}, 0)
    ELSE IF fault = "execute" THEN Ret(Call(s, "execute"), "OperationalError", {}, 0)
    ELSE Ret(Call(s, "execute"), NoError, {}, 0)

\* connection without the finally clause: the session is closed only when
\* nothing was raised
connection_CloseOnSuccess(s, herr, do_commit, fault) ==
    IF herr # NoError THEN Left(rollback(s), herr, FALSE)
    ELSE IF ~do_commit THEN Left(close(s), NoError, FALSE)
    ELSE IF fault THEN Left(rollback(Call(s, "commit")), "OperationalError", FALSE)
    ELSE Left(close(commit(s)), NoError, TRUE)

\* DatabaseSessionManager.connection, after the decorated method: `herr` is
\* the error raised so far (NoError: the method returned)
connection(s, herr, do_commit, fault) ==
    IF herr # NoError THEN Left(close(rollback(s)), herr, FALSE)
    ELSE IF ~do_commit THEN Left(close(s), NoError, FALSE)
    ELSE IF fault THEN Left(close(rollback(Call(s, "commit"))), "OperationalError", FALSE)
    ELSE Left(close(commit(s)), NoError, TRUE)

\* -------------------------------------------------------------------- auth
ExpireDays == 30
SECRET_KEY == "secret"
\* str(n) and the other texts a subject claim can hold
Str(n) == [kind |-> "dec", n |-> n]
NoToken == [sub |-> [kind |-> "none", n |-> 0], exp |-> 0, key |-> "none"]

\* create_access_token({"sub": sub}): the claims and the signing key
create_access_token(sub) == [sub |-> sub, exp |-> now + ExpireDays, key |-> SECRET_KEY]

TokenNoFound == "401 Token not found"
NoJwtException == "401 Invalid token"
NoUserIdException == "401 User ID not found"
UserNotFound == "401 User not found"

\* get_token: the cookie, or TokenNoFound when the request has none
get_token(c) == IF c = NoToken THEN TokenNoFound ELSE NoError

\* jwt.decode that does not look at the exp claim
jwt_decode_NoExpiry(token) ==
    IF token.key # SECRET_KEY THEN "JWTError" ELSE NoError

\* jwt.decode(token, SECRET_KEY, algorithms=ALGORITHM): a JWTError for a
\* text that is no token or is not signed with the key, ExpiredSignatureError
\* (a JWTError) when exp is before the clock
jwt_decode(token) ==
    IF token.key # SECRET_KEY THEN "JWTError"
    ELSE IF token.exp < now THEN "ExpiredSignatureError"
    ELSE NoError

\* A resolution that accepts no token
get_current_user_Rejects(token, s, fault) == Ret(s, NoJwtException, {}, 0)

\* get_current_user(token, session)
get_current_user(token, s, fault) ==
    LET user_id == token.sub
        user == find_one_or_none_by_id(s, user_id.n, fault) IN
    IF jwt_decode(token) # NoError THEN Ret(s, NoJwtException, {}, 0)
    ELSE IF user_id.kind \in {"none", "empty"} THEN Ret(s, NoUserIdException, {}, 0)
    ELSE IF user_id.kind # "dec" THEN Ret(s, "ValueError", {}, 0)
    ELSE IF user.err # NoError THEN user
    ELSE IF user.rows = {} THEN Ret(user.s, UserNotFound, {}, 0)
    ELSE user

NoRes == [token |-> NoToken, at |-> 0, err |-> NoError, rows |-> {}, calls |-> <<>>,
          open |-> FALSE, existed |-> FALSE, dep |-> "none", fault |-> "none",
          user |-> {}, guard |-> NoError]
\* No login stands behind the cookie the client presents.
NoClient == [user |-> 0, out |-> FALSE]

\* authenticate_user: the user, or none (the empty set)
authenticate_user(s, email, password, fault) ==
    LET f == find_one_or_none(s, EmailModel(email), fault, "raises") IN
    IF f.err # NoError THEN f
    ELSE IF f.rows = {} \/ \E user \in f.rows :
                ~verify_password(password, user.password)
         THEN Ret(f.s, NoError, {}, 0)
         ELSE f

\* SUserRegister: the field bounds and the check_password validator; the
\* validated object holds the hash of the password.
SUserRegister_valid(password, confirm_password) ==
    /\ PwLen(password) >= MinPwLen /\ PwLen(password) <= MaxPwLen
    /\ PwLen(confirm_password) >= MinPwLen /\ PwLen(confirm_password) <= MaxPwLen
    /\ password = confirm_password
\* SUserAuth: the field bounds
SUserAuth_valid(password) ==
    PwLen(password) >= MinPwLen /\ PwLen(password) <= MaxPwLen

\* get_token_optional: the cookie, or None (NoToken) when the request has none
get_token_optional(c) == c

\* get_current_user_optional(token, session): the user, or none (no row)
get_current_user_optional(token, s, fault) ==
    LET user_id == token.sub
        user == find_one_or_none_by_id(s, user_id.n, fault) IN
    IF token = NoToken THEN Ret(s, NoError, {}, 0)
    ELSE IF jwt_decode(token) # NoError THEN Ret(s, NoError, {}, 0)
    ELSE IF user_id.kind \in {"none", "empty"} THEN Ret(s, NoError, {}, 0)
    ELSE IF user_id.kind # "dec" THEN Ret(s, "ValueError", {}, 0)
    ELSE user

ForbiddenException == "403 Insufficient permissions"
AdminRoles == {3, 4}
\* current_user.role.id: the identifier of the role the user refers to
\* (fourier/auth/models.py, not in the sources)
role(current_user) == [id |-> current_user.role_id]

\* An admin guard that lets every resolved user pass
get_current_admin_user_AnyRole(current_user) == NoError

\* get_current_admin_user(current_user): returns the user (NoError) or raises
get_current_admin_user(current_user) ==
    IF role(current_user).id \in AdminRoles THEN NoError ELSE ForbiddenException

\* get_all_users(session, user_data), once its dependencies are resolved
get_all_users(s, fault) == find_all(s, NoFilters, fault)

\* logout_user(response): the response deletes the cookie; the client that
\* obeys presents no cookie afterwards
logout_user(c) == NoToken

\* ---------------------------------------------------------- SpecDAO: scope
NoOp == [name |-> "none", err |-> NoError, before |-> NoSession, seen |-> {},
         arg |-> NoFilters, unique_fields |-> {}, fault |-> "none", rows |-> {}]
NoScope == [kind |-> "none", do_commit |-> FALSE, pc |-> "idle", sess |-> NoSession,
            nops |-> 0, herr |-> NoError, err |-> NoError, committed |-> FALSE,
            op |-> NoOp]

\* ------------------------------------------------------------ Spec: requests
Idle == [kind |-> "none", pc |-> "idle", email |-> "", password |-> 0,
         sess |-> NoSession, herr |-> NoError, result |-> "",
         token |-> NoToken, cookie |-> NoToken,
         existed |-> FALSE, pwok |-> FALSE, after |-> FALSE]
NoReg == [email |-> "", password |-> 0]

\* A request arrives: a body that fails validation is answered 422 and no
\* handler runs; otherwise the session dependency hands the handler a new
\* session.
Start(r) ==
    /\ req[r].pc = "idle"
    /\ \E kind \in {"register", "login"}, email \in Emails,
          password \in Passwords, confirm_password \in Passwords :
         /\ IF kind = "register"
            THEN SUserRegister_valid(password, confirm_password)
            ELSE SUserAuth_valid(password) /\ confirm_password = password
         /\ req' = [req EXCEPT ![r] =
                       [Idle EXCEPT !.kind = kind, !.pc = "handler", !.email = email,
                                    !.password = password, !.sess = NewSession]]
    /\ UNCHANGED <<db, nextId, uniqueEmail, now, lastReg, raced>>

\* register_user up to its first await that returns: the pre-check
RegisterFind(r) ==
    /\ req[r].kind = "register" /\ req[r].pc = "handler"
    /\ \E fault \in {"none", "execute"} :
         LET f == find_one_or_none(req[r].sess, EmailModel(req[r].email), fault, "raises")
             existed == \E u \in db : u.email = req[r].email IN
         req' = [req EXCEPT ![r].sess = f.s, ![r].existed = existed,
                    ![r].herr = IF f.err # NoError THEN f.err
                                ELSE IF f.rows # {} THEN UserAlreadyExistsException
                                ELSE NoError,
                    ![r].pc = IF f.err = NoError /\ f.rows = {} THEN "add" ELSE "exit"]
    /\ UNCHANGED <<db, nextId, uniqueEmail, now, lastReg, raced>>

\* The INSERT waits while another open session holds an uncommitted row with
\* the same email under the unique constraint.
Blocked(r) ==
    uniqueEmail /\ \E o \in Reqs \ {r} : \E w \in req[o].sess.written :
                        w.email = req[r].email

\* register_user from the pre-check to its return: UsersDAO.add
RegisterAdd(r) ==
    /\ req[r].kind = "register" /\ req[r].pc = "add"
    /\ nextId <= MaxId
    /\ ~Blocked(r)
    /\ \E fault \in {"none", "flush"} :
         LET a == add(req[r].sess,
                      SUserAddDB(req[r].email, get_password_hash(req[r].password)), fault) IN
         /\ req' = [req EXCEPT ![r].sess = a.s, ![r].herr = a.err, ![r].pc = "exit",
                       ![r].result = IF a.err = NoError
                                     THEN "You have been registered successfully!" ELSE ""]
         /\ nextId' = IF a.err = NoError THEN nextId + 1 ELSE nextId
    /\ UNCHANGED <<db, uniqueEmail, now, lastReg, raced>>

\* The transactional session dependency after register_user has ended: the
\* response is out and the slot takes the next request.
RegisterExit(r) ==
    /\ req[r].kind = "register" /\ req[r].pc = "exit"
    /\ \E fault \in BOOLEAN :
         LET x == get_transaction_session(req[r].sess, req[r].herr, fault) IN
         /\ req' = [req EXCEPT ![r] = Idle]
         /\ db' = IF x.committed THEN Committed(req[r].sess) ELSE db
         /\ lastReg' = IF x.committed
                        THEN [email |-> req[r].email, password |-> req[r].password]
                        ELSE lastReg
         /\ raced' = (raced \/ (x.committed /\ ~req[r].existed
                                  /\ \E u \in db : u.email = req[r].email))
    /\ UNCHANGED <<nextId, uniqueEmail, now>>

\* auth_user: authenticate_user, then the token and the cookie
LoginAuth(r) ==
    /\ req[r].kind = "login" /\ req[r].pc = "handler"
    /\ \E fault \in {"none", "execute"} :
         LET check == authenticate_user(req[r].sess, req[r].email, req[r].password, fault)
             access_token == IF check.err = NoError /\ check.rows # {}
                             THEN create_access_token(Str((CHOOSE u \in check.rows : TRUE).id))
                             ELSE NoToken IN
         req' = [req EXCEPT ![r].sess = check.s, ![r].pc = "exit",
                    ![r].existed = \E u \in db : u.email = req[r].email,
                    ![r].pwok = \E u \in db : /\ u.email = req[r].email
                                               /\ verify_password(req[r].password, u.password),
                    ![r].after = (lastReg = [email |-> req[r].email,
                                             password |-> req[r].password]),
                    ![r].herr = IF check.err # NoError THEN check.err
                                ELSE IF check.rows = {} THEN IncorrectEmailOrPasswordException
                                ELSE NoError,
                    ![r].token = access_token,
                    ![r].cookie = access_token,
                    ![r].result = IF access_token # NoToken
                                  THEN "Authorization is successful!" ELSE ""]
    /\ UNCHANGED <<db, nextId, uniqueEmail, now, lastReg, raced>>

\* The plain session dependency after auth_user has ended: the response is
\* out and the slot takes the next request.
LoginExit(r) ==
    /\ req[r].kind = "login" /\ req[r].pc = "exit"
    /\ LET x == get_session(req[r].sess, req[r].herr) IN
         /\ ~x.s.open
         /\ req' = [req EXCEPT ![r] = Idle]
    /\ UNCHANGED <<db, nextId, uniqueEmail, now, lastReg, raced>>

Init ==
    /\ db = {}
    /\ nextId = 1
    /\ uniqueEmail \in BOOLEAN
    /\ now = 0
    /\ req = [r \in Reqs |-> Idle]
    /\ lastReg = NoReg
    /\ raced = FALSE
    /\ scope = NoScope
    /\ cookie = NoToken
    /\ res = NoRes
    /\ client = NoClient

Next ==
    /\ \E r \in Reqs :
        \/ Start(r)
        \/ RegisterFind(r)
        \/ RegisterAdd(r)
        \/ RegisterExit(r)
        \/ LoginAuth(r)
        \/ LoginExit(r)
    /\ UNCHANGED <<scope, cookie, res, client>>

Spec == Init /\ [][Next]_vars

\* ------------------------------------------------------- claims under Spec
\* The ghost fields of a request: `existed` (a stored user had the email when
\* the lookup ran), `pwok` (and the password of one), `after` (the lookup ran
\* with the same credentials as the registration committed last).
Faulted(r) == req[r].herr = "OperationalError"
HandlerEnded(r, kind) == req[r].kind = kind /\ req[r].pc = "exit"
HasDuplicateEmail == \E u, v \in db : u.id # v.id /\ u.email = v.email

\* C1: a register request with the email of an already stored user ends
\* with the conflict error 409 'User already exists', whatever its password,
\* and adds no user record (the data layer itself not failing).
C1_RegisterExistingConflicts ==
    \A r \in Reqs :
        (HandlerEnded(r, "register") /\ req[r].existed /\ ~Faulted(r))
            => /\ req[r].herr = UserAlreadyExistsException
               /\ req[r].sess.written = {}

\* C2: a login that runs right after the registration of the same email and
\* password was committed finds the user, passes the password check, returns
\* a non-empty access token and sets the cookie to it (the data layer itself
\* not failing).
C2_LoginAfterRegisterSucceeds ==
    \A r \in Reqs :
        (HandlerEnded(r, "login") /\ req[r].after /\ ~Faulted(r))
            => /\ req[r].herr = NoError
               /\ req[r].token # NoToken
               /\ req[r].cookie = req[r].token

\* What the client sees of a login
Outcome(r) == <<req[r].herr, req[r].result, req[r].token, req[r].cookie>>
WrongPassword(r) == HandlerEnded(r, "login") /\ req[r].existed /\ ~req[r].pwok
UnknownEmail(r) == HandlerEnded(r, "login") /\ ~req[r].existed

\* C3: a login with the email of a stored user and a password of none of
\* them fails with 401, sets no cookie, and its outcome is the outcome of a
\* login with an email of no user (the data layer itself not failing).
C3_WrongPasswordIsUnauthorized ==
    \A r \in Reqs :
        (WrongPassword(r) /\ ~Faulted(r))
            => /\ req[r].herr = IncorrectEmailOrPasswordException
               /\ req[r].cookie = NoToken
               /\ \A o \in Reqs : (UnknownEmail(o) /\ ~Faulted(o))
                                        => Outcome(o) = Outcome(r)

\* C4: two stored users share an email only when the table has no unique
\* constraint and a registration passed its pre-check before the commit of
\* another registration of the same email, and committed after it.
C4_DuplicateOnlyByRace == HasDuplicateEmail => (~uniqueEmail /\ raced)

C4_DuplicateStored == HasDuplicateEmail /\ raced /\ ~uniqueEmail

\* ------------------------------------------------------- SpecDAO: actions
Row(id, email, p) ==
    [id |-> id, email |-> email, password |-> get_password_hash(p), role_id |-> DefaultRole]
InitDbs ==
    { {},
      {Row(1, "a@x.com", 1)},
      {Row(1, "a@x.com", 1), Row(2, "b@x.com", 1)},
      {Row(1, "a@x.com", 1), Row(2, "a@x.com", 1)} }

IdFilter(id) == Model("IdFilter", [k \in {"id"} |-> id])
PasswordValue(p) == Model("PasswordValue", [k \in {"password"} |-> get_password_hash(p)])
IdPasswordValue(id, p) ==
    Model("IdPasswordValue",
          [k \in {"id", "password"} |-> IF k = "id" THEN id ELSE get_password_hash(p)])
EmptyFilter == Model("EmailModel", EmptyDict)
FilterObjs == {EmptyFilter, EmailModel("a@x.com"), IdFilter(2)}
ValueObjs == {SUserAddDB("a@x.com", get_password_hash(2)),
              SUserAddDB("b@x.com", get_password_hash(2))}
RecordLists == { <<IdPasswordValue(1, 2)>>, <<PasswordValue(2), IdPasswordValue(2, 2)>> }

otherVars == <<uniqueEmail, now, req, lastReg, raced, cookie, res, client>>
InBody == scope.pc = "body" /\ scope.nops < MaxOps

\* A scope of the session manager is entered and hands out a new session.
Enter ==
    /\ scope.pc = "idle"
    /\ \E kind \in {"get_session", "get_transaction_session", "connection"},
          do_commit \in BOOLEAN, isolation_level \in {"None", "SERIALIZABLE"},
          fault \in {"none", "execute"} :
         /\ kind # "connection" =>
                (~do_commit /\ isolation_level = "None" /\ fault = "none")
         /\ isolation_level = "None" => fault = "none"
         /\ LET e == IF kind = "connection"
                     THEN connection_enter(NewSession, isolation_level, fault)
                     ELSE Ret(NewSession, NoError, {}, 0) IN
            scope' = [NoScope EXCEPT !.kind = kind, !.do_commit = do_commit,
                         !.sess = e.s, !.herr = e.err,
                         !.pc = IF e.err = NoError THEN "body" ELSE "ended"]
    /\ UNCHANGED <<db, nextId, otherVars>>

\* The handler has called DAO operation `name`, which left `ret`: an error
\* it raised leaves the handler.
DaoStep(name, ret, arg, unique_fields, fault, inserted) ==
    /\ scope' = [scope EXCEPT !.sess = ret.s, !.nops = @ + 1, !.herr = ret.err,
                    !.pc = IF ret.err = NoError THEN "body" ELSE "ended",
                    !.op = [name |-> name, err |-> ret.err, before |-> scope.sess,
                            seen |-> View(scope.sess), arg |-> arg,
                            unique_fields |-> unique_fields, fault |-> fault,
                            rows |-> ret.rows]]
    /\ nextId' = IF ret.err = NoError THEN nextId + inserted ELSE nextId
    /\ UNCHANGED <<db, otherVars>>

FindById ==
    /\ InBody
    /\ \E data_id \in {1, 3}, fault \in {"none", "execute"} :
         DaoStep("find_one_or_none_by_id",
                 find_one_or_none_by_id(scope.sess, data_id, fault),
                 IdFilter(data_id), {}, fault, 0)

FindOne ==
    /\ InBody
    /\ \E filters \in FilterObjs, fault \in {"none", "execute"} :
         DaoStep("find_one_or_none",
                 find_one_or_none(scope.sess, filters, fault, "raises"),
                 filters, {}, fault, 0)

FindAll ==
    /\ InBody
    /\ \E filters \in {NoFilters, EmailModel("a@x.com")}, fault \in {"none", "execute"} :
         DaoStep("find_all", find_all(scope.sess, filters, fault), filters, {}, fault, 0)

Add ==
    /\ InBody
    /\ \E values \in ValueObjs, fault \in {"none", "flush"} :
         DaoStep("add", add(scope.sess, values, fault), values, {}, fault, 1)

AddMany ==
    /\ InBody
    /\ \E fault \in {"none", "flush"} :
         LET instances == <<SUserAddDB("a@x.com", get_password_hash(2)),
                            SUserAddDB("b@x.com", get_password_hash(2))>> IN
         DaoStep("add_many", add_many(scope.sess, instances, fault),
                 NoFilters, {}, fault, Len(instances))

Update ==
    /\ InBody
    /\ \E filters \in FilterObjs, fault \in Faults :
         DaoStep("update", update(scope.sess, filters, PasswordValue(2), fault),
                 filters, {}, fault, 0)

Delete ==
    /\ InBody
    /\ \E filters \in FilterObjs, fault \in Faults :
         DaoStep("delete", delete(scope.sess, filters, fault), filters, {}, fault, 0)

Count ==
    /\ InBody
    /\ \E filters \in {EmptyFilter, EmailModel("a@x.com")}, fault \in {"none", "execute"} :
         DaoStep("count", count(scope.sess, filters, fault), filters, {}, fault, 0)

Paginate ==
    /\ InBody
    /\ \E page \in {1, 2}, fault \in {"none", "execute"} :
         DaoStep("paginate", paginate(scope.sess, page, 1, NoFilters, fault),
                 NoFilters, {}, fault, 0)

FindByIds ==
    /\ InBody
    /\ \E ids \in {{1, 3}}, fault \in {"none", "execute"} :
         DaoStep("find_by_ids", find_by_ids(scope.sess, ids, fault),
                 NoFilters, {}, fault, 0)

Upsert ==
    /\ InBody
    /\ \E values \in ValueObjs, fault \in Faults, lib \in DumpOutcomes :
         LET u == upsert(scope.sess, {"email"}, values, fault, lib) IN
         DaoStep("upsert", u, values, {"email"}, fault,
                 IF \E r \in u.rows : r.id = nextId THEN 1 ELSE 0)

BulkUpdate ==
    /\ InBody
    /\ \E records \in RecordLists, fault \in Faults :
         DaoStep("bulk_update", bulk_update(scope.sess, records, fault),
                 NoFilters, {}, fault, 0)

\* The handler returns (at its end, or early).
HandlerReturn ==
    /\ scope.pc = "body"
    /\ scope' = [scope EXCEPT !.pc = "ended"]
    /\ UNCHANGED <<db, nextId, otherVars>>

\* The handler raises an error of its own.
HandlerRaise ==
    /\ scope.pc = "body"
    /\ scope' = [scope EXCEPT !.pc = "ended", !.herr = "HTTPException"]
    /\ UNCHANGED <<db, nextId, otherVars>>

\* The scope is left: what the session manager does after the handler.
Exit ==
    /\ scope.pc = "ended"
    /\ \E fault \in BOOLEAN :
         LET x == CASE scope.kind = "get_session" -> get_session(scope.sess, scope.herr)
                    [] scope.kind = "get_transaction_session" ->
                           get_transaction_session(scope.sess, scope.herr, fault)
                    [] OTHER -> connection(scope.sess, scope.herr, scope.do_commit, fault) IN
         /\ scope' = [scope EXCEPT !.pc = "left", !.sess = x.s, !.err = x.err,
                         !.committed = x.committed]
         /\ db' = IF x.committed THEN Committed(scope.sess) ELSE db
    /\ UNCHANGED <<nextId, otherVars>>

InitDAO ==
    /\ db \in InitDbs
    /\ nextId = 3
    /\ uniqueEmail \in BOOLEAN
    /\ uniqueEmail => ~HasDuplicateEmail
    /\ now = 0
    /\ req = [r \in Reqs |-> Idle]
    /\ lastReg = NoReg
    /\ raced = FALSE
    /\ scope = NoScope
    /\ cookie = NoToken
    /\ res = NoRes
    /\ client = NoClient

NextDAO ==
    \/ Enter
    \/ FindById
    \/ FindOne
    \/ FindAll
    \/ Add
    \/ AddMany
    \/ Update
    \/ Delete
    \/ Count
    \/ Paginate
    \/ FindByIds
    \/ Upsert
    \/ BulkUpdate
    \/ HandlerReturn
    \/ HandlerRaise
    \/ Exit

SpecDAO == InitDAO /\ [][NextDAO]_vars

\* ---------------------------------------------------- claims under SpecDAO
Has(calls, c) == \E i \in 1..Len(calls) : calls[i] = c
Times(calls, c) == Cardinality({i \in 1..Len(calls) : calls[i] = c})
EndsWith(calls, tail) ==
    /\ Len(calls) >= Len(tail)
    /\ SubSeq(calls, Len(calls) - Len(tail) + 1, Len(calls)) = tail
\* The calls the last DAO operation made on the session
OpCalls == SubSeq(scope.sess.calls, Len(scope.op.before.calls) + 1, Len(scope.sess.calls))
\* The state is the one the last DAO operation left
AfterOp(name) == scope.pc \in {"body", "ended"} /\ scope.op.name = name
ReadOps == {"find_one_or_none_by_id", "find_one_or_none", "find_all", "count",
            "paginate", "find_by_ids"}
WriteOps == {"add", "add_many", "update", "delete", "upsert", "bulk_update"}
DataLayerError ==
    scope.pc = "ended" /\ scope.op.name # "none" /\ scope.op.err \in SQLAlchemyErrors
TxLeft == scope.kind = "get_transaction_session" /\ scope.pc = "left"

\* C5: the transactional dependency calls commit exactly when the handler
\* completed normally; on an error of the handler, or of the commit, it rolls
\* the session back and that error leaves the scope; no commit is called
\* once an error was raised.
C5_CommitIffHandlerCompleted ==
    TxLeft =>
        /\ Has(scope.sess.calls, "commit") <=> (scope.herr = NoError)
        /\ Times(scope.sess.calls, "commit") <= 1
        /\ scope.committed <=> (scope.err = NoError)
        /\ scope.herr # NoError =>
               /\ scope.err = scope.herr
               /\ EndsWith(scope.sess.calls, <<"rollback", "close">>)
        /\ (scope.herr = NoError /\ ~scope.committed) =>
               /\ scope.err = "OperationalError"
               /\ EndsWith(scope.sess.calls, <<"commit", "rollback", "close">>)
\* C5: the handler raised after a successful add and the scope rolled back
C5_RolledBackAfterAdd ==
    /\ TxLeft /\ scope.herr = "HTTPException" /\ ~scope.committed
    /\ scope.op.name = "add" /\ scope.op.err = NoError

\* C6: a scope that was left, of any of the three kinds and on any path
\* (return, early return, error), has closed its session, as its last call.
C6_SessionClosedOnExit ==
    scope.pc = "left" =>
        /\ ~scope.sess.open
        /\ EndsWith(scope.sess.calls, <<"close">>)
        /\ Times(scope.sess.calls, "close") = 1
\* C6: a connection-decorated method raised and the scope was left
C6_ClosedAfterError ==
    /\ scope.pc = "left" /\ scope.kind = "connection" /\ scope.herr = "HTTPException"
    /\ scope.op.name = "update" /\ ~scope.sess.open

C8_EmptyFilterDeleteFails ==
    (AfterOp("delete") /\ DOMAIN scope.op.arg.data = {}) =>
        /\ scope.op.err = "ValueError"
        /\ OpCalls = <<>>
        /\ scope.sess = scope.op.before
        /\ View(scope.sess) = scope.op.seen
\* C8: delete with an empty filter was called on a table that has rows
C8_EmptyFilterOnRows ==
    /\ AfterOp("delete") /\ DOMAIN scope.op.arg.data = {}
    /\ scope.op.seen # {}

\* C9: upsert(unique_fields, values) with no data-layer fault: when no row
\* matches the values on the unique fields, exactly one new row with the
\* values is inserted and the others are unchanged; when one row matches, it
\* is updated in place with the values, no row is added and the returned row
\* has the identifier it had.
C9_UpsertInsertsOrUpdates ==
    (AfterOp("upsert") /\ scope.op.fault = "none") =>
        LET V == scope.op.arg.data
            seen == scope.op.seen
            after == View(scope.sess)
            matching == {r \in seen : \A f \in scope.op.unique_fields : r[f] = V[f]} IN
        /\ matching = {} =>
               \E new \in after :
                   /\ new.id \notin {r.id : r \in seen}
                   /\ \A k \in DOMAIN V : new[k] = V[k]
                   /\ after = seen \cup {new}
        /\ Cardinality(matching) = 1 =>
               \E m \in matching :
                   /\ after = (seen \ {m}) \cup {UpdateRow(m, V)}
                   /\ scope.op.rows = {UpdateRow(m, V)}

\* ------------------------------------------------------ SpecToken: actions
\* The texts a client can send as the cookie: no token at all, a token
\* signed with another key, and signed tokens of any subject and expiry.
Subjects == {Str(1), Str(3), [kind |-> "txt", n |-> 0], [kind |-> "empty", n |-> 0],
             [kind |-> "none", n |-> 0]}
TokenInputs ==
    {[sub |-> Str(1), exp |-> 0, key |-> "malformed"],
     [sub |-> Str(1), exp |-> ExpireDays, key |-> "other"]}
    \cup {[sub |-> sub, exp |-> exp, key |-> SECRET_KEY] :
              sub \in Subjects, exp \in {0, 1, ExpireDays}}

tokenOther == <<db, nextId, uniqueEmail, req, lastReg, raced, scope>>

\* The client sends a request with a cookie of its choice.
Present ==
    /\ \E c \in TokenInputs : cookie' = c
    /\ res' = NoRes
    /\ client' = NoClient
    /\ UNCHANGED <<now, tokenOther>>

\* auth_user as one step: the cookie is set to the token of the user.
Login ==
    /\ \E email \in Emails, password \in {1, 2} :
         LET x == authenticate_user(NewSession, email, password, "none") IN
         /\ x.rows # {}
         /\ cookie' = create_access_token(Str((CHOOSE u \in x.rows : TRUE).id))
         /\ client' = [user |-> (CHOOSE u \in x.rows : TRUE).id, out |-> FALSE]
    /\ res' = NoRes
    /\ UNCHANGED <<now, tokenOther>>

\* Time passes.
Tick ==
    /\ \E d \in {1, ExpireDays} : now + d <= MaxNow /\ now' = now + d
    /\ res' = NoRes
    /\ UNCHANGED <<cookie, client, tokenOther>>

\* A request that depends on get_current_user, under the plain session
\* dependency.
GetCurrentUser ==
    /\ \E fault \in {"none", "execute"} :
         LET t == get_token(cookie)
             u == IF t # NoError THEN Ret(NewSession, t, {}, 0)
                  ELSE get_current_user(cookie, NewSession, fault)
             x == get_session(u.s, u.err) IN
         res' = [token |-> cookie, at |-> now, err |-> x.err, rows |-> u.rows,
                 calls |-> x.s.calls, open |-> x.s.open,
                 existed |-> \E r \in db : Str(r.id) = cookie.sub,
                 dep |-> "get_current_user", fault |-> fault,
                 user |-> u.rows, guard |-> NoError]
    /\ UNCHANGED <<cookie, now, client, tokenOther>>

InitToken ==
    /\ db \in InitDbs
    /\ nextId = 3
    /\ uniqueEmail = FALSE
    /\ now = 0
    /\ req = [r \in Reqs |-> Idle]
    /\ lastReg = NoReg
    /\ raced = FALSE
    /\ scope = NoScope
    /\ cookie = NoToken
    /\ res = NoRes
    /\ client = NoClient

NextToken ==
    \/ Present
    \/ Login
    \/ Tick
    \/ GetCurrentUser

SpecToken == InitToken /\ [][NextToken]_vars

\* -------------------------------------------------- claims under SpecToken
\* The last resolution was given a token signed with the key whose expiry
\* had elapsed.
ExpiredPresented ==
    /\ res.token # NoToken /\ res.token.key = SECRET_KEY
    /\ res.token.exp < res.at

\* C10: get_current_user rejects a token whose expiry has elapsed with a 401
\* error: it returns no user and makes no call on the session, whatever the
\* subject claim and whether or not that user exists.
C10_ExpiredTokenRejected ==
    ExpiredPresented =>
        /\ res.err = NoJwtException
        /\ res.rows = {}
        /\ ~Has(res.calls, "execute")
\* C10: a token of a stored user with the expiry of a login was presented after
\* its thirty days
C10_LoginTokenExpired ==
    /\ ExpiredPresented /\ res.existed
    /\ res.token.exp >= ExpireDays /\ res.err = NoJwtException

\* ------------------------------------------------------ SpecGuard: actions
\* Users of every role: the first user has any of the roles, the second the
\* default one.
RoleIds == 1..5
GuardDbs ==
    {{[Row(1, "a@x.com", 1) EXCEPT !.role_id = r], Row(2, "b@x.com", 2)} : r \in RoleIds}

\* logout_user: the server answers with a cookie deletion and touches
\* nothing else; the client drops the cookie, or keeps presenting it.
Logout ==
    /\ \E kept \in BOOLEAN :
         /\ cookie' = IF kept THEN cookie ELSE logout_user(cookie)
         /\ client' = IF kept THEN [client EXCEPT !.out = TRUE] ELSE NoClient
    /\ res' = NoRes
    /\ UNCHANGED <<now, tokenOther>>

\* A request that depends on get_current_user_optional, under the plain
\* session dependency.
GetCurrentUserOptional ==
    /\ \E fault \in {"none", "execute"} :
         LET token == get_token_optional(cookie)
             u == get_current_user_optional(token, NewSession, fault)
             x == get_session(u.s, u.err) IN
         res' = [token |-> cookie, at |-> now, err |-> x.err, rows |-> u.rows,
                 calls |-> x.s.calls, open |-> x.s.open,
                 existed |-> \E r \in db : Str(r.id) = cookie.sub,
                 dep |-> "get_current_user_optional", fault |-> fault,
                 user |-> u.rows, guard |-> NoError]
    /\ UNCHANGED <<cookie, now, client, tokenOther>>

\* GET /all_users/: the session dependency, get_token, get_current_user and
\* get_current_admin_user are resolved, then the handler runs; an error of a
\* dependency ends the request before the handler.
GetAllUsers ==
    /\ \E fault \in {"none", "execute"}, list_fault \in {"none", "execute"} :
         LET t == get_token(cookie)
             u == IF t # NoError THEN Ret(NewSession, t, {}, 0)
                  ELSE get_current_user(cookie, NewSession, fault)
             g == IF u.err # NoError THEN u.err
                  ELSE get_current_admin_user(CHOOSE current_user \in u.rows : TRUE)
             h == IF g # NoError THEN Ret(u.s, g, {}, 0)
                  ELSE get_all_users(u.s, list_fault)
             x == get_session(h.s, h.err) IN
         /\ (u.err # NoError \/ g # NoError) => list_fault = "none"
         /\ res' = [token |-> cookie, at |-> now, err |-> x.err, rows |-> h.rows,
                    calls |-> x.s.calls, open |-> x.s.open,
                    existed |-> \E r \in db : Str(r.id) = cookie.sub,
                    dep |-> "get_all_users", fault |-> fault,
                    user |-> u.rows, guard |-> g]
    /\ UNCHANGED <<cookie, now, client, tokenOther>>

InitGuard ==
    /\ db \in GuardDbs
    /\ nextId = 3
    /\ uniqueEmail = FALSE
    /\ now = 0
    /\ req = [r \in Reqs |-> Idle]
    /\ lastReg = NoReg
    /\ raced = FALSE
    /\ scope = NoScope
    /\ cookie = NoToken
    /\ res = NoRes
    /\ client = NoClient

NextGuard ==
    \/ Present
    \/ Login
    \/ Logout
    \/ Tick
    \/ GetCurrentUser
    \/ GetCurrentUserOptional
    \/ GetAllUsers

SpecGuard == InitGuard /\ [][NextGuard]_vars

\* -------------------------------------------------- claims under SpecGuard
\* C11: get_current_user_optional never raises: whatever the cookie holds
\* and whether or not the user lookup fails, the request that depends on it
\* is given a user or no user, and no error leaves it.
C11_OptionalNeverRaises ==
    res.dep = "get_current_user_optional" => res.err = NoError

\* C11 without the two raising cases: when the subject is a decimal text
\* (or is missing) and the lookup does not fail, no error leaves it.
C11_SwallowsTokenFailures ==
    /\ res.dep = "get_current_user_optional"
    /\ res.fault = "none"
    /\ res.token.sub.kind # "txt"
    => res.err = NoError /\ (res.rows = {} \/ res.existed)

\* C12: the admin guard lets a resolved user pass exactly when the user's
\* role identifier is 3 or 4, and fails with the 403 error for every other
\* resolved user; list-all-users returns rows only when a user was resolved
\* and passed the guard.
C12_AdminGuard ==
    res.dep = "get_all_users" =>
        /\ \A current_user \in res.user :
              IF current_user.role_id \in {3, 4}
              THEN res.guard = NoError
              ELSE res.guard = ForbiddenException /\ res.err = ForbiddenException
        /\ res.rows # {} =>
              /\ res.guard = NoError /\ res.err = NoError
              /\ \E current_user \in res.user : current_user.role_id \in {3, 4}
\* C12: a user of role 3 or 4 was given the list of all users, the row of a
\* non-admin user among them
C12_AdminListed ==
    /\ res.dep = "get_all_users" /\ res.err = NoError /\ res.rows = db
    /\ \E current_user \in res.user : current_user.role_id \in {3, 4}
    /\ \E u \in res.rows : u.role_id \notin {3, 4}
\* C12: a resolved user of another role was refused with the 403 error
C12_NonAdminForbidden ==
    /\ res.dep = "get_all_users" /\ res.err = ForbiddenException /\ res.rows = {}
    /\ \E current_user \in res.user : current_user.role_id \notin {3, 4}

\* The last get_current_user call was given the token of a login after
\* logout_user had run; the lookup did not fail.
PresentedAfterLogout ==
    /\ res.dep = "get_current_user" /\ res.fault = "none"
    /\ client.user # 0 /\ client.out
    /\ res.token.key = SECRET_KEY
    /\ \E at \in 0..res.at : res.token.exp = at + ExpireDays

\* C13: a token issued at login and presented after logout_user has run is
\* accepted by get_current_user and resolves to the user who logged in, as
\* long as its expiry has not elapsed and the user is stored.
C13_TokenSurvivesLogout ==
    /\ PresentedAfterLogout
    /\ res.token.exp >= res.at
    /\ \E u \in db : u.id = client.user
    => /\ res.err = NoError
       /\ res.rows = {u \in db : u.id = client.user}
       /\ res.token.sub = Str(client.user)
\* C13: a day or more after the login and after the logout, the token was
\* presented and resolved to the user
C13_AcceptedAfterLogout ==
    /\ PresentedAfterLogout /\ res.err = NoError
    /\ res.at < res.token.exp /\ res.at > res.token.exp - ExpireDays
    /\ \E u \in res.rows : u.id = client.user

\* ------------------------------------------ claims under SpecDAO, continued
\* The scope commits on normal completion: the transactional dependency, or
\* the connection decorator with commit=True.
Transactional ==
    \/ scope.kind = "get_transaction_session"
    \/ scope.kind = "connection" /\ scope.do_commit

\* C14: no DAO operation commits: until the scope is left no commit was
\* called on the session, whatever operations ran. The stored rows change
\* only in the step that leaves a transactional scope whose handler
\* completed normally, by the scope's single commit; under the plain session
\* dependency they never change.
C14_OnlyScopeCommits ==
    [][ /\ scope'.pc \in {"body", "ended"} => ~Has(scope'.sess.calls, "commit")
        /\ db' # db =>
              /\ Transactional
              /\ scope.pc = "ended" /\ scope.herr = NoError
              /\ scope'.pc = "left" /\ scope'.err = NoError /\ scope'.committed
              /\ Times(scope'.sess.calls, "commit") = 1
              /\ db' = Committed(scope.sess)
        /\ scope.kind = "get_session" => db' = db
      ]_vars
\* C14: under the plain session dependency add flushed a new row, the
\* handler returned, the scope was left, and the row is not stored
C14_FlushedNeverCommitted ==
    /\ scope.pc = "left" /\ scope.kind = "get_session"
    /\ scope.op.name = "add" /\ scope.op.err = NoError /\ scope.err = NoError
    /\ Has(scope.sess.calls, "flush") /\ ~Has(scope.sess.calls, "commit")
    /\ scope.op.rows # {} /\ \A r \in scope.op.rows : r \notin db
\* C14: in a transactional scope that completed normally the row add flushed
\* is stored
C14_FlushedThenCommitted ==
    /\ scope.pc = "left" /\ Transactional /\ scope.committed
    /\ scope.op.name = "add" /\ scope.op.err = NoError
    /\ scope.op.rows # {} /\ \A r \in scope.op.rows : r \in db

====
